---- MODULE Spec2Model ----
(***************************************************************************)
(* Script Blueprint Generator (src/src/App.tsx): the blueprint list, the   *)
(* global configuration table, the snippet catalog and the script          *)
(* generator with its placeholder substitution and syntax checker.         *)
(*                                                                         *)
(* Text.  A JavaScript string is a sequence of tokens.  Every character    *)
(* an operation of the program inspects (the percent sign, the brackets,   *)
(* the dollar sign, letters and digits of keys, values and templates, the  *)
(* comma and blanks of the parameter list, the double quote and backslash  *)
(* that JSON escapes) is a token of its own.  A run of fixed literal text  *)
(* that the generator emits and that holds none of these (such as the      *)
(* first header line) is written as one token; no such token ends in "if"  *)
(* or "function", so the substring tests of validateSyntax see the same    *)
(* matches as on the character string.                                     *)
(*                                                                         *)
(* Objects.  A JavaScript object used as a mapping (customParams,          *)
(* globalConfig) is a sequence of entries in insertion order, which is the *)
(* order Object.entries and Object.keys enumerate for keys that are not    *)
(* array indices; the keys of the model are never array indices.           *)
(***************************************************************************)
EXTENDS Integers, Sequences, FiniteSets, TLC

VARIABLES
    blueprints,        \* useState<Blueprint[]>([])            App.tsx:259
    generatedScript,   \* useState('')                         App.tsx:260
    customSnippets,    \* useState<Snippet[]>([])              App.tsx:261
    globalConfig,      \* useState<GlobalConfig>({})           App.tsx:262
    syntaxErrors,      \* useState<string[]>([])               App.tsx:263
    draggedItem,       \* useState<string | null>(null)        App.tsx:264
    editingBlueprint,  \* useState<string | null>(null)        App.tsx:269
    newSnippet,        \* the Add Custom Snippet form          App.tsx:272
    isAddSnippetOpen,  \* useState(false)                      App.tsx:267
    dataTransfer,      \* 'text/plain' of the drag in progress App.tsx:523
    toast,             \* the last notification shown
    lastCall,          \* the handler that ran last and the exception it let escape
    idCounter          \* how many identifiers were generated

vars == <<blueprints, generatedScript, customSnippets, globalConfig,
          syntaxErrors, draggedItem, editingBlueprint, newSnippet,
          isAddSnippetOpen, dataTransfer, toast, lastCall, idCounter>>

(***************************************************************************)
(* Bounds of the model.                                                    *)
(***************************************************************************)
MaxBlueprints == 3    \* longest blueprint list explored
MaxIds == 4           \* identifiers generated in one run
MaxVars == 2          \* most global configuration variables at a time
MaxCustom == 1        \* most custom snippets in the catalog
MaxSegments == 2      \* segments of a drawn code template
MaxOverrides == 2     \* entries of a drawn override mapping
MaxEdited == 2        \* blueprints whose parameters are edited
MaxStored == 1        \* blueprints in the list while the stored script is watched
MaxPieces == 4        \* pieces of a drawn text for the syntax checker


(***************************************************************************)
(* Text helpers.                                                           *)
(***************************************************************************)
Min(a, b) == IF a <= b THEN a ELSE b
Max(a, b) == IF a >= b THEN a ELSE b

RECURSIVE Concat(_)
\* Array.prototype.flat / join without separator: the texts one after another.
Concat(parts) ==
    IF parts = <<>> THEN <<>> ELSE Head(parts) \o Concat(Tail(parts))

RECURSIVE Join(_, _)
\* Array.prototype.join(sep)
Join(parts, sep) ==
    IF parts = <<>> THEN <<>>
    ELSE IF Len(parts) = 1 THEN parts[1]
    ELSE parts[1] \o sep \o Join(Tail(parts), sep)

\* number of occurrences of the one-character pattern ch: (code.match(/ch/g) || []).length
CountChar(text, ch) == Cardinality({i \in DOMAIN text : text[i] = ch})

\* String.prototype.includes
Includes(text, sub) ==
    \E i \in 1..(Len(text) - Len(sub) + 1) :
        \A j \in 1..Len(sub) : text[i + j - 1] = sub[j]

Digits == <<"0", "1", "2", "3", "4", "5", "6", "7", "8", "9">>

RECURSIVE NumToStr(_)
\* `${n}` for a non-negative integer n
NumToStr(n) ==
    IF n < 10 THEN <<Digits[n + 1]>>
    ELSE NumToStr(n \div 10) \o <<Digits[(n % 10) + 1]>>

(***************************************************************************)
(* Objects as ordered mappings: sequences of records with a key field.     *)
(***************************************************************************)
Keys(obj) == {obj[i].key : i \in DOMAIN obj}

\* { ...obj, [entry.key]: entry }: an existing key keeps its place
SetEntry(obj, entry) ==
    IF entry.key \in Keys(obj)
    THEN [i \in DOMAIN obj |-> IF obj[i].key = entry.key THEN entry ELSE obj[i]]
    ELSE Append(obj, entry)

RECURSIVE SelectEntries(_, _)
SelectEntries(obj, keep) ==
    IF obj = <<>> THEN <<>>
    ELSE IF Head(obj).key \in keep
         THEN <<Head(obj)>> \o SelectEntries(Tail(obj), keep)
         ELSE SelectEntries(Tail(obj), keep)

\* delete obj[key]
DeleteKey(obj, key) == SelectEntries(obj, Keys(obj) \ {key})

(***************************************************************************)
(* new RegExp(source, 'g') and String.prototype.replace(regexp, string).   *)
(* The pattern sources of the program are "%" + key + "%".  The model      *)
(* covers the patterns built from ordinary characters, the dot, the        *)
(* anchors ^ and $ and parentheses; the keys of the model use no other     *)
(* pattern syntax (no quantifier, class, alternative or backslash).        *)
(***************************************************************************)
RECURSIVE ParenDepthOK(_, _)
\* the parentheses of a pattern source nest properly; otherwise the RegExp
\* constructor throws a SyntaxError (unterminated group, unmatched ')')
ParenDepthOK(source, depth) ==
    IF source = <<>> THEN depth = 0
    ELSE IF Head(source) = "(" THEN ParenDepthOK(Tail(source), depth + 1)
    ELSE IF Head(source) = ")" THEN depth > 0 /\ ParenDepthOK(Tail(source), depth - 1)
    ELSE ParenDepthOK(Tail(source), depth)

RegExpThrows(source) == ~ParenDepthOK(source, 0)

\* The atoms of a compiled pattern, each consuming one character; a group
\* only captures, so its parentheses consume nothing.
RegExpAtoms(source) == SelectSeq(source, LAMBDA c : c \notin {"(", ")"})

LineTerminators == {"\n", "\r"}

\* one atom against one character: the dot takes anything but a line
\* terminator; ^ and $ between the two percent signs can never hold
AtomMatches(atom, ch) ==
    IF atom = "." THEN ch \notin LineTerminators
    ELSE IF atom \in {"^", "$"} THEN FALSE
    ELSE atom = ch

MatchAt(text, i, atoms) ==
    /\ i + Len(atoms) - 1 <= Len(text)
    /\ \A j \in 1..Len(atoms) : AtomMatches(atoms[j], text[i + j - 1])

Backtick == "\\x60"

RECURSIVE GetSubstitution(_, _, _, _)
\* The replacement text of one match (ECMAScript GetSubstitution): $$ is a
\* dollar sign, $& the match, $` the text before it, $' the text after it;
\* any other dollar sign stands for itself.  (The values of the model hold
\* no "$" followed by a digit or "<".)  Backtick stands for the character
\* U+0060, which a TLA+ string cannot hold.
GetSubstitution(matched, text, position, replacement) ==
    IF replacement = <<>> THEN <<>>
    ELSE IF Head(replacement) = "$" /\ Len(replacement) >= 2
              /\ replacement[2] \in {"$", "&", Backtick, "'"}
    THEN LET rest == GetSubstitution(matched, text, position, SubSeq(replacement, 3, Len(replacement)))
         IN  CASE replacement[2] = "$" -> <<"$">> \o rest
               [] replacement[2] = "&" -> matched \o rest
               [] replacement[2] = Backtick -> SubSeq(text, 1, position - 1) \o rest
               [] replacement[2] = "'" -> SubSeq(text, position + Len(matched), Len(text)) \o rest
    ELSE <<Head(replacement)>> \o GetSubstitution(matched, text, position, Tail(replacement))

RECURSIVE ReplaceFrom(_, _, _, _)
\* text.replace(regexp with flag g, replacement), scanning from position i:
\* leftmost matches, not overlapping, each replaced by its substitution
ReplaceFrom(text, i, atoms, replacement) ==
    IF i > Len(text) THEN <<>>
    ELSE IF MatchAt(text, i, atoms)
    THEN GetSubstitution(SubSeq(text, i, i + Len(atoms) - 1), text, i, replacement)
         \o ReplaceFrom(text, i + Len(atoms), atoms, replacement)
    ELSE <<text[i]>> \o ReplaceFrom(text, i + 1, atoms, replacement)

\* `%${key}%`
Placeholder(key) == <<"%">> \o key \o <<"%">>

Returned(text) == [threw |-> FALSE, value |-> text]
Thrown == [threw |-> TRUE, value |-> <<>>]

RECURSIVE ReplaceEntries(_, _)
\* entries.forEach(([key, value]) => { processedCode = processedCode.replace(
\*   new RegExp(`%${key}%`, 'g'), value) }), an exception ending the loop
ReplaceEntries(processedCode, entries) ==
    IF entries = <<>> THEN Returned(processedCode)
    ELSE IF RegExpThrows(Placeholder(Head(entries).key)) THEN Thrown
    ELSE ReplaceEntries(
            ReplaceFrom(processedCode, 1, RegExpAtoms(Placeholder(Head(entries).key)),
                        Head(entries).value),
            Tail(entries))

RECURSIVE StripPlaceholders(_)
\* text without its percent-delimited names: text.replace(/%[^%]+%/g, '')
StripPlaceholders(text) ==
    IF text = <<>> THEN <<>>
    ELSE IF Head(text) = "%"
              /\ \E j \in 3..Len(text) :
                    text[j] = "%" /\ \A k \in 2..(j - 1) : text[k] # "%"
    THEN LET j == CHOOSE j \in 3..Len(text) :
                      text[j] = "%" /\ \A k \in 2..(j - 1) : text[k] # "%"
         IN  StripPlaceholders(SubSeq(text, j + 1, Len(text)))
    ELSE <<Head(text)>> \o StripPlaceholders(Tail(text))

\* a processSnippetCode that blanks the placeholders nothing replaced
processSnippetCode_blanking(code, params, config) ==
    LET afterParams == ReplaceEntries(code, params)
        afterConfig == ReplaceEntries(afterParams.value,
                 [i \in DOMAIN config |-> [key |-> config[i].key, value |-> config[i].value]])
    IN  IF afterParams.threw \/ afterConfig.threw THEN Thrown
        ELSE Returned(StripPlaceholders(afterConfig.value))

\* processSnippetCode(code, params, config): the parameter placeholders
\* first, the config variable placeholders second
processSnippetCode(code, params, config) ==
    LET afterParams == ReplaceEntries(code, params)
    IN  IF afterParams.threw THEN Thrown
        ELSE ReplaceEntries(afterParams.value,
                 [i \in DOMAIN config |-> [key |-> config[i].key, value |-> config[i].value]])

(***************************************************************************)
(* validateSyntax                                                          *)
(***************************************************************************)
\* a validateSyntax that looks for "if(" before "function("
validateSyntax_ifFirst(code) ==
    (IF CountChar(code, "{") # CountChar(code, "}")
        THEN <<"Mismatched curly braces">> ELSE <<>>)
    \o (IF CountChar(code, "(") # CountChar(code, ")")
        THEN <<"Mismatched parentheses">> ELSE <<>>)
    \o (IF Includes(code, <<"i", "f", "(">>)
        THEN <<"Missing space after if keyword">> ELSE <<>>)
    \o (IF Includes(code, <<"f", "u", "n", "c", "t", "i", "o", "n", "(">>)
        THEN <<"Missing space after function keyword">> ELSE <<>>)

validateSyntax(code) ==
    (IF CountChar(code, "{") # CountChar(code, "}")
        THEN <<"Mismatched curly braces">> ELSE <<>>)
    \o (IF CountChar(code, "(") # CountChar(code, ")")
        THEN <<"Mismatched parentheses">> ELSE <<>>)
    \o (IF Includes(code, <<"f", "u", "n", "c", "t", "i", "o", "n", "(">>)
        THEN <<"Missing space after function keyword">> ELSE <<>>)
    \o (IF Includes(code, <<"i", "f", "(">>)
        THEN <<"Missing space after if keyword">> ELSE <<>>)

(***************************************************************************)
(* The snippet catalog.  SAMPLE_SNIPPETS holds two of the eight seed       *)
(* snippets of the source, '2' (three declared parameters) and '5' (one),  *)
(* with their text in full.                                                *)
(***************************************************************************)
Snippet5 ==
    [id |-> <<"5">>,
     name |-> <<"Debounce Function">>,
     description |-> <<"Debounce function calls to improve performance">>,
     category |-> "Performance Utilities",
     code |-> <<"function debounce", "(", "func, wait = ",
                "%", "d", "e", "b", "o", "u", "n", "c", "e", "D", "e", "l", "a", "y", "%",
                ")", " ", "{", "\n  let timeout;\n  return function executedFunction",
                "(", "...args", ")", " ", "{", "\n    const later = ", "(", ")", " => ",
                "{", "\n      clearTimeout", "(", "timeout", ")", ";\n      func", "(",
                "...args", ")", ";\n    ", "}", ";\n    clearTimeout", "(", "timeout", ")",
                ";\n    timeout = setTimeout", "(", "later, wait", ")", ";\n  ", "}",
                ";\n", "}">>,
     parameters |-> << <<"d", "e", "b", "o", "u", "n", "c", "e", "D", "e", "l", "a", "y">> >>,
     isCustom |-> FALSE]

Snippet2 ==
    [id |-> <<"2">>,
     name |-> <<"Event Listener Helper">>,
     description |-> <<"Add event listeners with cleanup">>,
     category |-> "Event Handling",
     code |-> <<"function addEventListenerWithCleanup", "(", "element, event, handler",
                ")", " ", "{", "\n  element.addEventListener", "(", "%", "e", "v", "e",
                "n", "t", "%", ", ", "%", "h", "a", "n", "d", "l", "e", "r", "%", ")",
                ";\n  return ", "(", ")", " => element.removeEventListener", "(", "%",
                "e", "v", "e", "n", "t", "%", ", ", "%", "h", "a", "n", "d", "l", "e",
                "r", "%", ")", ";\n", "}">>,
     parameters |-> <<<<"e", "l", "e", "m", "e", "n", "t">>,
                      <<"e", "v", "e", "n", "t">>,
                      <<"h", "a", "n", "d", "l", "e", "r">>>>,
     isCustom |-> FALSE]

SAMPLE_SNIPPETS == <<Snippet2, Snippet5>>

\* const allSnippets = [...SAMPLE_SNIPPETS, ...customSnippets]
allSnippets == SAMPLE_SNIPPETS \o customSnippets

Range(seq) == {seq[i] : i \in DOMAIN seq}

(***************************************************************************)
(* Identifiers.  `blueprint-${Date.now()}-${random}` and its custom-       *)
(* counterpart are fresh on every call; the n-th identifier generated is   *)
(* the pair of its prefix and n.  null is the empty tuple.                 *)
(***************************************************************************)
null == <<>>
BlueprintId(n) == <<"blueprint-", n>>
CustomId(n) == <<"custom-", n>>

\* what is recorded of a handler call: its name and the exception it let
\* escape to the event loop
NoError == "none"
Returns(handler) == [handler |-> handler, error |-> NoError]
Throws(handler, error) == [handler |-> handler, error |-> error]
NoCall == Returns("none")

Toast(title, variant) == [title |-> title, variant |-> variant]
NoToast == Toast("", "default")

\* no drag is in progress: the browser delivers no other input during a drag
Idle == dataTransfer = null

(***************************************************************************)
(* Array.prototype.splice(start, deleteCount, ...items) for start >= 0,    *)
(* as a value: the array after the call.  Indices are zero-based.          *)
(***************************************************************************)
Splice(array, start, deleteCount, items) ==
    LET actualStart == Min(start, Len(array))
        actualDelete == Min(Max(deleteCount, 0), Len(array) - actualStart)
    IN  SubSeq(array, 1, actualStart) \o items
        \o SubSeq(array, actualStart + actualDelete + 1, Len(array))

(***************************************************************************)
(* The blueprint list.                                                     *)
(***************************************************************************)
\* addBlueprint(snippet)
addBlueprint(snippet) ==
    /\ Idle
    /\ Len(blueprints) < MaxBlueprints
    /\ idCounter < MaxIds
    /\ LET newBlueprint == [id |-> BlueprintId(idCounter + 1),
                            snippet |-> snippet,
                            order |-> Len(blueprints),
                            customParams |-> <<>>]
       IN  blueprints' = Append(blueprints, newBlueprint)
    /\ idCounter' = idCounter + 1
    /\ toast' = Toast("Blueprint Added", "default")
    /\ lastCall' = Returns("addBlueprint")
    /\ UNCHANGED <<generatedScript, customSnippets, globalConfig, syntaxErrors,
                   draggedItem, editingBlueprint, newSnippet, isAddSnippetOpen,
                   dataTransfer>>

\* a filter that also renumbers what it keeps
FilterOutId_compacting(prev, blueprintId) ==
    LET kept == SelectSeq(prev, LAMBDA bp : bp.id # blueprintId)
    IN  [index \in DOMAIN kept |-> [kept[index] EXCEPT !.order = index - 1]]

\* a filter with the comparison the wrong way round
FilterOutId_inverted(prev, blueprintId) ==
    SelectSeq(prev, LAMBDA bp : bp.id = blueprintId)

\* prev => prev.filter(bp => bp.id !== blueprintId)
FilterOutId(prev, blueprintId) == SelectSeq(prev, LAMBDA bp : bp.id # blueprintId)

\* removeBlueprint(blueprintId), from the trash button of a listed blueprint
removeBlueprint(blueprintId) ==
    /\ Idle
    /\ \E i \in DOMAIN blueprints : blueprints[i].id = blueprintId
    /\ blueprints' = FilterOutId(blueprints, blueprintId)
    /\ toast' = Toast("Blueprint Removed", "default")
    /\ lastCall' = Returns("removeBlueprint")
    /\ UNCHANGED <<generatedScript, customSnippets, globalConfig, syntaxErrors,
                   draggedItem, editingBlueprint, newSnippet, isAddSnippetOpen,
                   dataTransfer, idCounter>>

\* an update that selects by the snippet of the blueprint, not by its id
updateBlueprintParams_bySnippet(prev, blueprintId, params) ==
    [i \in DOMAIN prev |->
        IF \E j \in DOMAIN prev :
              prev[j].id = blueprintId /\ prev[j].snippet.id = prev[i].snippet.id
        THEN [prev[i] EXCEPT !.customParams = params]
        ELSE prev[i]]

\* prev => prev.map(bp => bp.id === blueprintId ? { ...bp, customParams: params } : bp)
updateBlueprintParams(prev, blueprintId, params) ==
    [i \in DOMAIN prev |->
        IF prev[i].id = blueprintId THEN [prev[i] EXCEPT !.customParams = params]
        ELSE prev[i]]

\* the Edit button of a blueprint whose snippet declares parameters:
\* setEditingBlueprint(editingBlueprint === blueprint.id ? null : blueprint.id)
toggleEditing(i) ==
    /\ Idle
    /\ i \in DOMAIN blueprints
    /\ Len(blueprints[i].snippet.parameters) > 0
    /\ editingBlueprint' = IF editingBlueprint = blueprints[i].id THEN null
                           ELSE blueprints[i].id
    /\ lastCall' = Returns("toggleEditing")
    /\ UNCHANGED <<blueprints, generatedScript, customSnippets, globalConfig,
                   syntaxErrors, draggedItem, newSnippet, isAddSnippetOpen,
                   dataTransfer, toast, idCounter>>

\* an onChange that takes any name for a parameter
onParamChange_anyKey(i, param, value) ==
    /\ Idle
    /\ i \in DOMAIN blueprints
    /\ editingBlueprint = blueprints[i].id
    /\ blueprints' = updateBlueprintParams(blueprints, blueprints[i].id,
                         SetEntry(blueprints[i].customParams,
                                  [key |-> param, value |-> value]))
    /\ lastCall' = Returns("onParamChange")
    /\ UNCHANGED <<generatedScript, customSnippets, globalConfig, syntaxErrors,
                   draggedItem, editingBlueprint, newSnippet, isAddSnippetOpen,
                   dataTransfer, toast, idCounter>>

\* onChange of the input of parameter param in the open parameter editor of
\* the blueprint at index i: the typed value merged into the previous mapping
onParamChange(i, param, value) ==
    /\ Idle
    /\ i \in DOMAIN blueprints
    /\ editingBlueprint = blueprints[i].id
    /\ param \in Range(blueprints[i].snippet.parameters)
    /\ LET newParams == SetEntry(blueprints[i].customParams,
                                 [key |-> param, value |-> value])
       IN  blueprints' = updateBlueprintParams(blueprints, blueprints[i].id, newParams)
    /\ lastCall' = Returns("onParamChange")
    /\ UNCHANGED <<generatedScript, customSnippets, globalConfig, syntaxErrors,
                   draggedItem, editingBlueprint, newSnippet, isAddSnippetOpen,
                   dataTransfer, toast, idCounter>>

\* a reorder that moves the blueprint and keeps every order field
reorderBlueprints_unnumbered(prev, dragIndex, hoverIndex) ==
    Splice(Splice(prev, dragIndex, 1, <<>>), hoverIndex, 0, <<prev[dragIndex + 1]>>)

\* the updater of reorderBlueprints(dragIndex, hoverIndex), indices zero-based
reorderBlueprints(prev, dragIndex, hoverIndex) ==
    LET draggedBlueprint == prev[dragIndex + 1]
        removed == Splice(prev, dragIndex, 1, <<>>)
        newBlueprints == Splice(removed, hoverIndex, 0, <<draggedBlueprint>>)
    IN  [index \in DOMAIN newBlueprints |->
            [newBlueprints[index] EXCEPT !.order = index - 1]]

\* handleDragStart(e, blueprintId, index) on the card at index
handleDragStart(index) ==
    /\ Idle
    /\ index \in 0..(Len(blueprints) - 1)
    /\ draggedItem' = blueprints[index + 1].id
    /\ dataTransfer' = <<index>>
    /\ lastCall' = Returns("handleDragStart")
    /\ UNCHANGED <<blueprints, generatedScript, customSnippets, globalConfig,
                   syntaxErrors, editingBlueprint, newSnippet, isAddSnippetOpen,
                   toast, idCounter>>

\* a handleDrop without the test dragIndex !== dropIndex
handleDrop_unguarded(dropIndex) ==
    /\ dataTransfer # null
    /\ dropIndex \in 0..(Len(blueprints) - 1)
    /\ blueprints' = reorderBlueprints(blueprints, dataTransfer[1], dropIndex)
    /\ draggedItem' = null
    /\ dataTransfer' = null
    /\ lastCall' = Returns("handleDrop")
    /\ UNCHANGED <<generatedScript, customSnippets, globalConfig, syntaxErrors,
                   editingBlueprint, newSnippet, isAddSnippetOpen, toast, idCounter>>

\* handleDrop(e, dropIndex) on the card at dropIndex, ending the drag
handleDrop(dropIndex) ==
    /\ dataTransfer # null
    /\ dropIndex \in 0..(Len(blueprints) - 1)
    /\ LET dragIndex == dataTransfer[1]
       IN  blueprints' = IF dragIndex # dropIndex
                         THEN reorderBlueprints(blueprints, dragIndex, dropIndex)
                         ELSE blueprints
    /\ draggedItem' = null
    /\ dataTransfer' = null
    /\ lastCall' = Returns("handleDrop")
    /\ UNCHANGED <<generatedScript, customSnippets, globalConfig, syntaxErrors,
                   editingBlueprint, newSnippet, isAddSnippetOpen, toast, idCounter>>

(***************************************************************************)
(* The global configuration table.                                         *)
(***************************************************************************)
\* `var${n}`, `param${n}`, `Parameter ${n}`
VarKey(n) == <<"v", "a", "r">> \o NumToStr(n)
ParamName(n) == <<"param">> \o NumToStr(n)
ParamLabel(n) == <<"Parameter ">> \o NumToStr(n)

\* addGlobalConfigVar(): the key from the size of the table the callback
\* closed over, which is the current table; name and label from prev
addGlobalConfigVar ==
    /\ Idle
    /\ Len(globalConfig) < MaxVars
    /\ LET key == VarKey(Len(globalConfig) + 1)
       IN  globalConfig' = SetEntry(globalConfig,
                               [key |-> key,
                                name |-> ParamName(Len(globalConfig) + 1),
                                label |-> ParamLabel(Len(globalConfig) + 1),
                                value |-> <<>>])
    /\ lastCall' = Returns("addGlobalConfigVar")
    /\ UNCHANGED <<blueprints, generatedScript, customSnippets, syntaxErrors,
                   draggedItem, editingBlueprint, newSnippet, isAddSnippetOpen,
                   dataTransfer, toast, idCounter>>

\* { ...prev[key], [field]: value }
SetField(entry, field, value) ==
    CASE field = "name" -> [entry EXCEPT !.name = value]
      [] field = "label" -> [entry EXCEPT !.label = value]
      [] field = "value" -> [entry EXCEPT !.value = value]

\* updateGlobalConfigVar(key, field, value), from an input of the row of key
updateGlobalConfigVar(i, field, value) ==
    /\ Idle
    /\ i \in DOMAIN globalConfig
    /\ globalConfig' = SetEntry(globalConfig, SetField(globalConfig[i], field, value))
    /\ lastCall' = Returns("updateGlobalConfigVar")
    /\ UNCHANGED <<blueprints, generatedScript, customSnippets, syntaxErrors,
                   draggedItem, editingBlueprint, newSnippet, isAddSnippetOpen,
                   dataTransfer, toast, idCounter>>

\* removeGlobalConfigVar(key), from the button of the row of key
removeGlobalConfigVar(i) ==
    /\ Idle
    /\ i \in DOMAIN globalConfig
    /\ globalConfig' = DeleteKey(globalConfig, globalConfig[i].key)
    /\ lastCall' = Returns("removeGlobalConfigVar")
    /\ UNCHANGED <<blueprints, generatedScript, customSnippets, syntaxErrors,
                   draggedItem, editingBlueprint, newSnippet, isAddSnippetOpen,
                   dataTransfer, toast, idCounter>>

(***************************************************************************)
(* JSON.stringify(value, null, 2) of the configuration object.             *)
(***************************************************************************)
\* QuoteJSONString: the characters JSON escapes, among those of the model
EscapeJSON(ch) ==
    CASE ch = "\"" -> <<"\\", "\"">>
      [] ch = "\\" -> <<"\\", "\\">>
      [] ch = "\n" -> <<"\\", "n">>
      [] ch = "\r" -> <<"\\", "r">>
      [] ch = "\t" -> <<"\\", "t">>
      [] OTHER -> <<ch>>

QuoteJSON(text) ==
    <<"\"">> \o Concat([i \in DOMAIN text |-> EscapeJSON(text[i])]) \o <<"\"">>

\* one property of the configuration object, at indentation 2
StringifyEntry(entry) ==
    <<"\n  ">> \o QuoteJSON(entry.key) \o <<": ", "{">>
    \o <<"\n    \"name\": ">> \o QuoteJSON(entry.name) \o <<",">>
    \o <<"\n    \"label\": ">> \o QuoteJSON(entry.label) \o <<",">>
    \o <<"\n    \"value\": ">> \o QuoteJSON(entry.value)
    \o <<"\n  ", "}">>

\* JSON.stringify(Object.fromEntries(Object.entries(config).map(...)), null, 2)
StringifyConfig(config) ==
    IF config = <<>> THEN <<"{", "}">>
    ELSE <<"{">> \o Join([i \in DOMAIN config |-> StringifyEntry(config[i])], <<",">>)
         \o <<"\n", "}">>

(***************************************************************************)
(* The script generator.                                                   *)
(***************************************************************************)
RECURSIVE InsertByOrder(_, _)
\* bp placed behind every element whose order is not greater
InsertByOrder(sorted, bp) ==
    IF sorted = <<>> THEN <<bp>>
    ELSE IF Head(sorted).order - bp.order <= 0
         THEN <<Head(sorted)>> \o InsertByOrder(Tail(sorted), bp)
         ELSE <<bp>> \o sorted

\* the copy [...array] left unsorted
SortByOrder_unsorted(array) == array

RECURSIVE SortByOrder(_)
\* [...array].sort((a, b) => a.order - b.order): Array.prototype.sort is stable
SortByOrder(array) ==
    IF array = <<>> THEN <<>>
    ELSE InsertByOrder(SortByOrder(SubSeq(array, 1, Len(array) - 1)), array[Len(array)])

\* a configuration line that is written for the empty table too
ConfigLine_always(config) == <<"var config = ">> \o StringifyConfig(config) \o <<";">>

\* Object.keys(globalConfig).length > 0 ? `var config = ${JSON.stringify(...)};` : ''
ConfigLine(config) ==
    IF Len(config) > 0
    THEN <<"var config = ">> \o StringifyConfig(config) \o <<";">>
    ELSE <<>>

\* `// ${bp.snippet.name} - ${bp.snippet.description}`
CommentLine(snippet) == <<"// ">> \o snippet.name \o <<" - ">> \o snippet.description

\* the three lines a blueprint contributes, given its processed code
BlueprintLines(bp, processedCode) == <<CommentLine(bp.snippet), processedCode, <<>> >>

\* scriptParts after .filter(line => line !== null): the line after the
\* configuration line is '' when the configuration line is not empty and
\* null, which the filter drops, when it is
ScriptParts(now, config, sortedBlueprints, processed) ==
    << <<"// Generated Script from Blueprint Generator">>,
       <<"// Generated on: ">> \o now,
       <<>>,
       ConfigLine(config) >>
    \o (IF ConfigLine(config) # <<>> THEN << <<>> >> ELSE <<>>)
    \o Concat([i \in DOMAIN sortedBlueprints |->
                  BlueprintLines(sortedBlueprints[i], processed[i].value)])

\* a rejection that also clears the output
noBlueprints_clearing ==
    /\ toast' = Toast("No Blueprints", "destructive")
    /\ lastCall' = Returns("generateScript")
    /\ generatedScript' = <<>>
    /\ syntaxErrors' = <<>>

\* the branch blueprints.length === 0 of generateScript: the toast, and return
noBlueprints ==
    /\ toast' = Toast("No Blueprints", "destructive")
    /\ lastCall' = Returns("generateScript")
    /\ UNCHANGED <<generatedScript, syntaxErrors>>

\* a generateScript that stores the script and keeps the warnings it had
generateScript_staleWarnings(now) ==
    /\ Idle
    /\ IF Len(blueprints) = 0
       THEN noBlueprints
       ELSE LET sortedBlueprints == SortByOrder(blueprints)
                processed == [i \in DOMAIN sortedBlueprints |->
                                 processSnippetCode(sortedBlueprints[i].snippet.code,
                                                    sortedBlueprints[i].customParams,
                                                    globalConfig)]
                script == Join(ScriptParts(now, globalConfig, sortedBlueprints, processed),
                               <<"\n">>)
            IN  IF \E i \in DOMAIN processed : processed[i].threw
                THEN /\ lastCall' = Throws("generateScript", "SyntaxError")
                     /\ UNCHANGED <<generatedScript, syntaxErrors, toast>>
                ELSE /\ generatedScript' = script
                     /\ toast' = Toast("Script Generated", "default")
                     /\ lastCall' = Returns("generateScript")
                     /\ UNCHANGED syntaxErrors
    /\ UNCHANGED <<blueprints, customSnippets, globalConfig, draggedItem,
                   editingBlueprint, newSnippet, isAddSnippetOpen, dataTransfer,
                   idCounter>>

\* generateScript(), now being new Date().toISOString()
generateScript(now) ==
    /\ Idle
    /\ IF Len(blueprints) = 0
       THEN noBlueprints
       ELSE LET sortedBlueprints == SortByOrder(blueprints)
                processed == [i \in DOMAIN sortedBlueprints |->
                                 processSnippetCode(sortedBlueprints[i].snippet.code,
                                                    sortedBlueprints[i].customParams,
                                                    globalConfig)]
                script == Join(ScriptParts(now, globalConfig, sortedBlueprints, processed),
                               <<"\n">>)
                errors == validateSyntax(script)
            IN  IF \E i \in DOMAIN processed : processed[i].threw
                THEN /\ lastCall' = Throws("generateScript", "SyntaxError")
                     /\ UNCHANGED <<generatedScript, syntaxErrors, toast>>
                ELSE /\ syntaxErrors' = errors
                     /\ generatedScript' = script
                     /\ toast' = IF Len(errors) > 0
                                 THEN Toast("Script Generated with Warnings", "destructive")
                                 ELSE Toast("Script Generated", "default")
                     /\ lastCall' = Returns("generateScript")
    /\ UNCHANGED <<blueprints, customSnippets, globalConfig, draggedItem,
                   editingBlueprint, newSnippet, isAddSnippetOpen, dataTransfer,
                   idCounter>>

(***************************************************************************)
(* Custom snippets.                                                        *)
(***************************************************************************)
WhiteSpace == {" ", "\t", "\n", "\r", "\f"}

RECURSIVE TrimStart(_)
TrimStart(text) ==
    IF text # <<>> /\ Head(text) \in WhiteSpace THEN TrimStart(Tail(text)) ELSE text

RECURSIVE TrimEnd(_)
TrimEnd(text) ==
    IF text # <<>> /\ text[Len(text)] \in WhiteSpace
    THEN TrimEnd(SubSeq(text, 1, Len(text) - 1)) ELSE text

\* String.prototype.trim
Trim(text) == TrimEnd(TrimStart(text))

RECURSIVE SplitFrom(_, _, _)
\* String.prototype.split(separator): the pieces between the separators,
\* piece being the piece read so far
SplitFrom(text, separator, piece) ==
    IF text = <<>> THEN <<piece>>
    ELSE IF Head(text) = separator
         THEN <<piece>> \o SplitFrom(Tail(text), separator, <<>>)
         ELSE SplitFrom(Tail(text), separator, Append(piece, Head(text)))

Split(text, separator) == SplitFrom(text, separator, <<>>)

\* a parameter list filtered before it is trimmed
ParseParameters_filterFirst(parameters) ==
    LET pieces == SelectSeq(Split(parameters, ","), LAMBDA piece : piece # <<>>)
    IN  [i \in DOMAIN pieces |-> Trim(pieces[i])]

\* newSnippet.parameters.split(',').map(p => p.trim()).filter(p => p)
ParseParameters(parameters) ==
    LET pieces == Split(parameters, ",")
        trimmed == [i \in DOMAIN pieces |-> Trim(pieces[i])]
    IN  SelectSeq(trimmed, LAMBDA piece : piece # <<>>)

EmptyForm ==
    [name |-> <<>>, description |-> <<>>, category |-> "Custom", code |-> <<>>,
     parameters |-> <<>>]

\* the dialog trigger and the Cancel button: setIsAddSnippetOpen
setIsAddSnippetOpen(open) ==
    /\ Idle
    /\ isAddSnippetOpen # open
    /\ isAddSnippetOpen' = open
    /\ lastCall' = Returns("setIsAddSnippetOpen")
    /\ UNCHANGED <<blueprints, generatedScript, customSnippets, globalConfig,
                   syntaxErrors, draggedItem, editingBlueprint, newSnippet,
                   dataTransfer, toast, idCounter>>

\* the inputs of the dialog: setNewSnippet(prev => ({ ...prev, field: value })),
\* one step for the typing that leaves the form as given
setNewSnippet(form) ==
    /\ Idle
    /\ isAddSnippetOpen
    /\ newSnippet # form
    /\ newSnippet' = form
    /\ lastCall' = Returns("setNewSnippet")
    /\ UNCHANGED <<blueprints, generatedScript, customSnippets, globalConfig,
                   syntaxErrors, draggedItem, editingBlueprint, isAddSnippetOpen,
                   dataTransfer, toast, idCounter>>

\* addCustomSnippet(), the Add Snippet button of the dialog
addCustomSnippet ==
    /\ Idle
    /\ isAddSnippetOpen
    /\ IF newSnippet.name = <<>> \/ newSnippet.code = <<>>
       THEN /\ toast' = Toast("Missing Information", "destructive")
            /\ UNCHANGED <<customSnippets, newSnippet, isAddSnippetOpen, idCounter>>
       ELSE /\ Len(customSnippets) < MaxCustom
            /\ idCounter < MaxIds
            /\ customSnippets' = Append(customSnippets,
                   [id |-> CustomId(idCounter + 1),
                    name |-> newSnippet.name,
                    description |-> newSnippet.description,
                    category |-> newSnippet.category,
                    code |-> newSnippet.code,
                    parameters |-> ParseParameters(newSnippet.parameters),
                    isCustom |-> TRUE])
            /\ idCounter' = idCounter + 1
            /\ newSnippet' = EmptyForm
            /\ isAddSnippetOpen' = FALSE
            /\ toast' = Toast("Custom Snippet Added", "default")
    /\ lastCall' = Returns("addCustomSnippet")
    /\ UNCHANGED <<blueprints, generatedScript, globalConfig, syntaxErrors,
                   draggedItem, editingBlueprint, dataTransfer>>

(***************************************************************************)
(* The state after construction.                                           *)
(***************************************************************************)
Init ==
    /\ blueprints = <<>>
    /\ generatedScript = <<>>
    /\ customSnippets = <<>>
    /\ globalConfig = <<>>
    /\ syntaxErrors = <<>>
    /\ draggedItem = null
    /\ editingBlueprint = null
    /\ newSnippet = EmptyForm
    /\ isAddSnippetOpen = FALSE
    /\ dataTransfer = null
    /\ toast = NoToast
    /\ lastCall = NoCall
    /\ idCounter = 0

(***************************************************************************)
(* Inputs.                                                                 *)
(***************************************************************************)
\* two results of new Date().toISOString(), each one token
Timestamps == { <<"2025-01-01T00:00:00.000Z">>, <<"2025-01-01T00:00:01.000Z">> }

\* what the user types into a parameter input
ParamInputs == { <<"x">> }

BlueprintIndices == 1..MaxBlueprints

(***************************************************************************)
(* Spec: assembling and generating.  Snippets of the catalog are added to  *)
(* and removed from the blueprint list and the script is generated.  The   *)
(* other handlers leave the blueprint list alone; the global configuration *)
(* table stays empty.                                                      *)
(***************************************************************************)
Next ==
    \/ \E snippet \in Range(allSnippets) : addBlueprint(snippet)
    \/ \E i \in BlueprintIndices :
          i \in DOMAIN blueprints /\ removeBlueprint(blueprints[i].id)
    \/ \E now \in Timestamps : generateScript(now)

Spec == Init /\ [][Next]_vars

(***************************************************************************)
(* SpecList: the blueprint list under add, remove, drag-and-drop reorder   *)
(* and parameter editing, with blueprints of snippet '5'.  A drag ends     *)
(* with a drop on a card: a drag abandoned elsewhere runs no handler of    *)
(* the program and leaves the list as the drop on the own card does.       *)
(***************************************************************************)
NextList ==
    \/ addBlueprint(Snippet5)
    \/ \E i \in BlueprintIndices :
          i \in DOMAIN blueprints /\ removeBlueprint(blueprints[i].id)
    \/ \E i \in BlueprintIndices : toggleEditing(i)
    \/ \E i \in BlueprintIndices, value \in ParamInputs :
          \E param \in Range(Snippet5.parameters) : onParamChange(i, param, value)
    \/ \E i \in BlueprintIndices : handleDragStart(i - 1)
    \/ \E i \in BlueprintIndices : handleDrop(i - 1)

SpecList == Init /\ [][NextList]_vars

(***************************************************************************)
(* SpecGenerate: generation from the states in which the catalog holds one *)
(* custom snippet, the list one blueprint of it with overrides typed in,   *)
(* the parameter editor closed again, and the configuration table at most  *)
(* the variable var1.  The template, the override mapping and the table    *)
(* are drawn from bounded sets.                                            *)
(***************************************************************************)
RECURSIVE SeqsUpTo(_, _)
\* the sequences of at most n elements of S
SeqsUpTo(S, n) ==
    IF n = 0 THEN { <<>> }
    ELSE SeqsUpTo(S, n - 1)
         \cup {Append(q, x) : q \in {r \in SeqsUpTo(S, n - 1) : Len(r) = n - 1}, x \in S}

ParamNames == { <<"a">>, <<"b">>, <<".">>, <<"(">> }

\* the parameter list typed into the dialog and what the program declares for it
DrawnParameterList == <<"a", ",", "b", ",", ".", ",", "(">>
DrawnParameters == ParseParameters(DrawnParameterList)

TemplateSegments ==
    { <<"x">>, Placeholder(<<"a">>), Placeholder(<<"b">>), Placeholder(VarKey(1)) }

Templates == {Concat(segments) : segments \in SeqsUpTo(TemplateSegments, MaxSegments)} \ { <<>> }

\* what is typed into the input of a parameter: plain text, a replacement
\* pattern, a placeholder
OverrideValues == { <<"x">>, <<"$", "$">>, Placeholder(<<"b">>) }

\* the entries typed: every value for the parameters a and b, plain text for
\* the parameters "." and "("
OverrideEntries ==
    [key : { <<"a">>, <<"b">> }, value : OverrideValues]
    \cup [key : ParamNames \ { <<"a">>, <<"b">> }, value : { <<"x">> }]

\* the override mappings: distinct declared parameters in the order typed
OverrideMappings ==
    {m \in SeqsUpTo(OverrideEntries, MaxOverrides) :
        \A i, j \in DOMAIN m : i # j => m[i].key # m[j].key}

ConfigValues == { <<"y">> }

\* the empty table, and var1 with a value typed in
DrawnConfigs ==
    { <<>> } \cup
    { << [key |-> VarKey(1), name |-> ParamName(1), label |-> ParamLabel(1),
          value |-> value] >> : value \in ConfigValues }

DrawnSnippet(template) ==
    [id |-> CustomId(1),
     name |-> <<"S">>,
     description |-> <<"d">>,
     category |-> "Custom",
     code |-> template,
     parameters |-> DrawnParameters,
     isCustom |-> TRUE]

InitGenerate ==
    /\ \E template \in Templates, overrides \in OverrideMappings :
          /\ customSnippets = << DrawnSnippet(template) >>
          /\ blueprints = << [id |-> BlueprintId(2),
                              snippet |-> DrawnSnippet(template),
                              order |-> 0,
                              customParams |-> overrides] >>
    /\ globalConfig \in DrawnConfigs
    /\ generatedScript = <<>>
    /\ syntaxErrors = <<>>
    /\ draggedItem = null
    /\ editingBlueprint = null
    /\ newSnippet = EmptyForm
    /\ isAddSnippetOpen = FALSE
    /\ dataTransfer = null
    /\ toast = Toast("Blueprint Added", "default")
    /\ lastCall = Returns("toggleEditing")
    /\ idCounter = 2

NextGenerate == \E now \in Timestamps : generateScript(now)

SpecGenerate == InitGenerate /\ [][NextGenerate]_vars

(***************************************************************************)
(* SpecParams: parameter editing.  The catalog holds a custom snippet with *)
(* the parameters a and b; blueprints of it are added and their parameter  *)
(* editors opened, typed into and closed.  The names offered to onChange   *)
(* are those of ParamNames, of which the editor has inputs for the         *)
(* declared ones only.                                                     *)
(***************************************************************************)
TwoParameterSnippet ==
    [DrawnSnippet(<<"x">>) EXCEPT !.parameters = ParseParameters(<<"a", ",", "b">>)]

\* what is typed into a parameter input
EditInputs == { <<"x">>, <<"y">> }

InitParams ==
    /\ blueprints = <<>>
    /\ generatedScript = <<>>
    /\ customSnippets = << TwoParameterSnippet >>
    /\ globalConfig = <<>>
    /\ syntaxErrors = <<>>
    /\ draggedItem = null
    /\ editingBlueprint = null
    /\ newSnippet = EmptyForm
    /\ isAddSnippetOpen = FALSE
    /\ dataTransfer = null
    /\ toast = Toast("Custom Snippet Added", "default")
    /\ lastCall = Returns("addCustomSnippet")
    /\ idCounter = 1

NextParams ==
    \/ \E snippet \in Range(customSnippets) :
          Len(blueprints) < MaxEdited /\ addBlueprint(snippet)
    \/ \E i \in 1..MaxEdited : toggleEditing(i)
    \/ \E i \in 1..MaxEdited, param \in ParamNames, value \in EditInputs :
          onParamChange(i, param, value)

SpecParams == InitParams /\ [][NextParams]_vars

(***************************************************************************)
(* SpecSyntax: the syntax checker on drawn texts.  The catalog holds a     *)
(* custom snippet without parameters whose code is a text of braces,       *)
(* parentheses, blanks and the words "if" and "function", the list one     *)
(* blueprint of it; generateScript runs validateSyntax on the script.      *)
(***************************************************************************)
SyntaxPieces ==
    { <<"{">>, <<"}">>, <<"(">>, <<")">>, <<" ">>, <<"i", "f">>,
      <<"f", "u", "n", "c", "t", "i", "o", "n">> }

SyntaxTexts == {Concat(pieces) : pieces \in SeqsUpTo(SyntaxPieces, MaxPieces)} \ { <<>> }

InitSyntax ==
    /\ \E text \in SyntaxTexts :
          LET snippet == [DrawnSnippet(text) EXCEPT !.parameters = <<>>]
          IN  /\ customSnippets = << snippet >>
              /\ blueprints = << [id |-> BlueprintId(2),
                                  snippet |-> snippet,
                                  order |-> 0,
                                  customParams |-> <<>>] >>
    /\ globalConfig = <<>>
    /\ generatedScript = <<>>
    /\ syntaxErrors = <<>>
    /\ draggedItem = null
    /\ editingBlueprint = null
    /\ newSnippet = EmptyForm
    /\ isAddSnippetOpen = FALSE
    /\ dataTransfer = null
    /\ toast = Toast("Blueprint Added", "default")
    /\ lastCall = Returns("addBlueprint")
    /\ idCounter = 2

NextSyntax == \E now \in Timestamps : generateScript(now)

SpecSyntax == InitSyntax /\ [][NextSyntax]_vars

(***************************************************************************)
(* SpecCustom: the Add Custom Snippet dialog.  The dialog is opened and    *)
(* closed, its form typed into and submitted; name, code and parameter     *)
(* list are drawn from bounded sets that hold the empty and the blank      *)
(* text.                                                                   *)
(***************************************************************************)
FormNames == { <<>>, <<" ">>, <<"S">> }
FormCodes == { <<>>, <<" ">>, <<"x">> }
FormParameterLists == { <<>>, <<"a", ",", " ", ",", "b">>, <<" ", "a", " ", ",">> }

Forms ==
    [name : FormNames, description : { <<>> }, category : {"Custom"},
     code : FormCodes, parameters : FormParameterLists]

NextCustom ==
    \/ \E open \in BOOLEAN : setIsAddSnippetOpen(open)
    \/ \E form \in Forms : setNewSnippet(form)
    \/ addCustomSnippet

SpecCustom == Init /\ [][NextCustom]_vars

(***************************************************************************)
(* SpecConfig: the Global Configuration panel.  Variables are added, their *)
(* fields typed into and their rows removed.                               *)
(***************************************************************************)
ConfigFields == {"name", "label", "value"}
ConfigIndices == 1..MaxVars
FieldInputs == { <<>>, <<"y">> }

NextConfig ==
    \/ addGlobalConfigVar
    \/ \E i \in ConfigIndices, field \in ConfigFields, value \in FieldInputs :
          updateGlobalConfigVar(i, field, value)
    \/ \E i \in ConfigIndices : removeGlobalConfigVar(i)

SpecConfig == Init /\ [][NextConfig]_vars

(***************************************************************************)
(* SpecPasses: the two substitution passes of processSnippetCode.  One     *)
(* custom snippet declares the parameters a and var1, so that a parameter  *)
(* can carry the key of a configuration variable; one blueprint of it is   *)
(* in the list.  Its template holds one placeholder, its override values   *)
(* and the value of the configuration variable var1 are plain text, a      *)
(* placeholder of the other pass, or a replacement pattern.                *)
(***************************************************************************)
PassParameterList == <<"a", ",">> \o VarKey(1)
PassParameters == ParseParameters(PassParameterList)

PassTemplates ==
    {pre \o Placeholder(key) \o post :
        pre \in { <<>>, <<"x">> }, key \in Range(PassParameters), post \in { <<>>, <<"x">> }}

PassOverrideValues == { <<"x">>, Placeholder(VarKey(1)), <<"$", "$">> }

PassOverrideMappings ==
    {m \in SeqsUpTo([key : Range(PassParameters), value : PassOverrideValues],
                    MaxOverrides) :
        \A i, j \in DOMAIN m : i # j => m[i].key # m[j].key}

PassConfigValues == { <<"y">>, Placeholder(<<"a">>), <<"$", "$">> }

PassConfigs ==
    { <<>> } \cup
    { << [key |-> VarKey(1), name |-> ParamName(1), label |-> ParamLabel(1),
          value |-> value] >> : value \in PassConfigValues }

PassSnippet(template) ==
    [DrawnSnippet(template) EXCEPT !.parameters = PassParameters]

InitPasses ==
    /\ \E template \in PassTemplates, overrides \in PassOverrideMappings :
          /\ customSnippets = << PassSnippet(template) >>
          /\ blueprints = << [id |-> BlueprintId(2),
                              snippet |-> PassSnippet(template),
                              order |-> 0,
                              customParams |-> overrides] >>
    /\ globalConfig \in PassConfigs
    /\ generatedScript = <<>>
    /\ syntaxErrors = <<>>
    /\ draggedItem = null
    /\ editingBlueprint = null
    /\ newSnippet = EmptyForm
    /\ isAddSnippetOpen = FALSE
    /\ dataTransfer = null
    /\ toast = Toast("Blueprint Added", "default")
    /\ lastCall = Returns("toggleEditing")
    /\ idCounter = 2

NextPasses == \E now \in Timestamps : generateScript(now)

SpecPasses == InitPasses /\ [][NextPasses]_vars

(***************************************************************************)
(* SpecStored: every handler of the program next to generateScript, to     *)
(* watch the stored script and the stored warnings.  The dialog is         *)
(* submitted empty or with one form, whose code has an open parenthesis    *)
(* before the placeholder of its parameter; the list holds blueprints of   *)
(* that custom snippet, the parameter is overridden by a closing           *)
(* parenthesis, and the configuration table holds its first variable.      *)
(* The form is typed while the catalog has no custom snippet, and          *)
(* MaxStored caps the list and, with the custom snippet's, the identifiers *)
(* handed out.                                                             *)
(***************************************************************************)
StoredInputs == { <<")">> }

StoredForm ==
    [name |-> <<"S">>, description |-> <<>>, category |-> "Custom",
     code |-> <<"(">> \o Placeholder(<<"a">>), parameters |-> <<"a">>]

StoredTimestamps == { <<"2025-01-01T00:00:00.000Z">> }

NextStored ==
    \/ \E snippet \in Range(customSnippets) :
          Len(blueprints) < MaxStored /\ idCounter <= MaxStored + 1
          /\ addBlueprint(snippet)
    \/ \E i \in 1..MaxStored :
          i \in DOMAIN blueprints /\ removeBlueprint(blueprints[i].id)
    \/ \E i \in 1..MaxStored : toggleEditing(i)
    \/ \E i \in 1..MaxStored, value \in StoredInputs :
          \E param \in Range(ParseParameters(StoredForm.parameters)) :
             onParamChange(i, param, value)
    \/ \E i \in 1..MaxStored : handleDragStart(i - 1)
    \/ \E i \in 1..MaxStored : handleDrop(i - 1)
    \/ globalConfig = <<>> /\ addGlobalConfigVar
    \/ \E value \in ConfigValues : updateGlobalConfigVar(1, "value", value)
    \/ removeGlobalConfigVar(1)
    \/ setIsAddSnippetOpen(TRUE)
    \/ customSnippets = <<>> /\ setNewSnippet(StoredForm)
    \/ addCustomSnippet
    \/ \E now \in StoredTimestamps : generateScript(now)

SpecStored == Init /\ [][NextStored]_vars

(***************************************************************************)
(* Properties.  What the formulas below read off a state.                  *)
(***************************************************************************)
GeneratedTitles == {"Script Generated", "Script Generated with Warnings"}

\* generateScript ran last and stored a script
Generated == lastCall = Returns("generateScript") /\ toast.title \in GeneratedTitles

\* the text of a script before its first blueprint block
Preamble(now, config) ==
    <<"// Generated Script from Blueprint Generator", "\n", "// Generated on: ">>
    \o now \o <<"\n", "\n">>
    \o (IF config = <<>> THEN <<"\n">>
        ELSE <<"var config = ">> \o StringifyConfig(config) \o <<";", "\n", "\n">>)

\* the block of a blueprint: the comment line, then the processed code
BlockText(bp) ==
    CommentLine(bp.snippet) \o <<"\n">>
    \o processSnippetCode(bp.snippet.code, bp.customParams, globalConfig).value
    \o <<"\n">>

IndexPermutations(n) ==
    {p \in [1..n -> 1..n] : \A i, j \in 1..n : i # j => p[i] # p[j]}

StartsWith(text, prefix) ==
    Len(prefix) <= Len(text) /\ SubSeq(text, 1, Len(prefix)) = prefix

Occurrences(text, pattern) ==
    Cardinality({i \in 1..Len(text) :
                    /\ i + Len(pattern) - 1 <= Len(text)
                    /\ SubSeq(text, i, i + Len(pattern) - 1) = pattern})

\* the list holds one blueprint and its script has just been generated
GeneratedOne == Generated /\ Len(blueprints) = 1

\* the processed code of the only blueprint, as the generated script holds it
RenderedBlock ==
    LET prefix(now) == Preamble(now, globalConfig)
                       \o CommentLine(blueprints[1].snippet) \o <<"\n">>
        now == CHOOSE t \in Timestamps : StartsWith(generatedScript, prefix(t))
    IN  SubSeq(generatedScript, Len(prefix(now)) + 1, Len(generatedScript) - 1)

\* code is pre, the placeholder of key, post, and only that placeholder is
\* delimited by percent signs
OnlyPlaceholder(code, pre, key, post) ==
    /\ code = pre \o Placeholder(key) \o post
    /\ CountChar(pre, "%") = 0
    /\ CountChar(post, "%") = 0

Prefixes(text) == {SubSeq(text, 1, n) : n \in 0..Len(text)}
Suffixes(text) == {SubSeq(text, n + 1, Len(text)) : n \in 0..Len(text)}

\* the order fields are 0..n-1 in array order
Dense(list) == \A k \in DOMAIN list : list[k].order = k - 1

\* the order fields are a permutation of 0..n-1
IsPermutation(list) == {list[k].order : k \in DOMAIN list} = 0..(Len(list) - 1)

\* a blueprint without its position
Unordered(bp) == [id |-> bp.id, snippet |-> bp.snippet, customParams |-> bp.customParams]

RemoveAt(list, k) == SubSeq(list, 1, k - 1) \o SubSeq(list, k + 1, Len(list))

(***************************************************************************)
(* C1 - For every non-empty blueprint list, the script generateScript      *)
(* stores holds, after the preamble, exactly one block per blueprint (the  *)
(* comment line with the snippet's name and description, then the          *)
(* processed code), the blocks in ascending order of the blueprints'       *)
(* order field.                                                            *)
(***************************************************************************)
C1_OneBlockPerBlueprintAscending ==
    [][ \A now \in Timestamps :
          (generateScript(now) /\ blueprints # <<>>) =>
             \E p \in IndexPermutations(Len(blueprints)) :
                /\ \A i, j \in DOMAIN p :
                      i < j => blueprints[p[i]].order <= blueprints[p[j]].order
                /\ generatedScript' =
                      Preamble(now, globalConfig)
                      \o Join([i \in DOMAIN p |-> BlockText(blueprints[p[i]])], <<"\n">>)
      ]_vars

\* a script generated from a list of two different snippets whose array
\* order is the reverse of their order fields
C1_Witness ==
    /\ Generated
    /\ Len(blueprints) = 2
    /\ blueprints[1].order > blueprints[2].order
    /\ blueprints[1].snippet # blueprints[2].snippet
    /\ \E now \in Timestamps :
          generatedScript = Preamble(now, globalConfig) \o BlockText(blueprints[2])
                            \o <<"\n">> \o BlockText(blueprints[1])

(***************************************************************************)
(* C2 - as the specification states it: for every key and value of a       *)
(* blueprint's override mapping, an occurrence of %key% in the code        *)
(* template is replaced by exactly that value in the rendered block.       *)
(* Stated on the templates in which that occurrence is the only text       *)
(* between percent signs: the rendered block is the template with the      *)
(* value in the place of the placeholder.                                  *)
(***************************************************************************)
C2_OverrideReplacedByValue ==
    GeneratedOne =>
       \A i \in DOMAIN blueprints[1].customParams :
          \A pre \in Prefixes(blueprints[1].snippet.code),
             post \in Suffixes(blueprints[1].snippet.code) :
             OnlyPlaceholder(blueprints[1].snippet.code, pre,
                             blueprints[1].customParams[i].key, post)
             => RenderedBlock = pre \o blueprints[1].customParams[i].value \o post

(***************************************************************************)
(* C3 - as the specification states it: a placeholder %key% whose key is   *)
(* neither in the blueprint's override mapping nor in the global           *)
(* configuration table is left verbatim: the rendered block holds at least *)
(* the occurrences of %key% the code template holds.                       *)
(***************************************************************************)
C3_UnresolvedLeftVerbatim ==
    GeneratedOne =>
       \A key \in ParamNames \cup {VarKey(1)} :
          key \notin Keys(blueprints[1].customParams) \cup Keys(globalConfig)
          => Occurrences(RenderedBlock, Placeholder(key))
                >= Occurrences(blueprints[1].snippet.code, Placeholder(key))

C5_ConfigHeaderOnceBeforeBlocks ==
    Generated =>
       IF globalConfig = <<>>
       THEN CountChar(generatedScript, "var config = ") = 0
       ELSE /\ CountChar(generatedScript, "var config = ") = 1
            /\ \A i, j \in DOMAIN generatedScript :
                  (generatedScript[i] = "var config = " /\ generatedScript[j] = "// ")
                  => i < j
            /\ \E now \in Timestamps :
                  StartsWith(generatedScript, Preamble(now, globalConfig))

\* a script generated with a variable in the table: the declaration is in
\* it, and a block behind it
C5_Witness ==
    /\ Generated
    /\ globalConfig # <<>>
    /\ \E i, j \in DOMAIN generatedScript :
          generatedScript[i] = "var config = " /\ generatedScript[j] = "// " /\ i < j

(***************************************************************************)
(* C6 - generateScript on an empty blueprint list leaves generatedScript   *)
(* and syntaxErrors unchanged and reports the rejection: the destructive   *)
(* toast "No Blueprints".                                                  *)
(***************************************************************************)
C6_EmptyListRejected ==
    [][ \A now \in Timestamps :
          (generateScript(now) /\ blueprints = <<>>) =>
             /\ generatedScript' = generatedScript
             /\ syntaxErrors' = syntaxErrors
             /\ toast' = Toast("No Blueprints", "destructive")
      ]_vars

\* the rejection reported while the script of an earlier generation stands
C6_Witness ==
    /\ blueprints = <<>>
    /\ lastCall = Returns("generateScript")
    /\ toast = Toast("No Blueprints", "destructive")
    /\ generatedScript # <<>>

(***************************************************************************)
(* C7 - as the specification states it: for any non-empty blueprint list,  *)
(* any snippet templates and any parameter overrides generateScript        *)
(* completes without failing and stores the generated script together      *)
(* with its warning list.                                                  *)
(***************************************************************************)
C7_GenerationNeverFails ==
    [][ \A now \in Timestamps :
          (generateScript(now) /\ blueprints # <<>>) =>
             /\ lastCall'.error = NoError
             /\ toast'.title \in GeneratedTitles
             /\ StartsWith(generatedScript', Preamble(now, globalConfig))
             /\ syntaxErrors' = validateSyntax(generatedScript')
      ]_vars

(***************************************************************************)
(* C8 - A drop of the blueprint dragged from index i on another index j    *)
(* puts that blueprint at index j, keeps the relative order of the others, *)
(* changes nothing of a blueprint but its order field, and sets every      *)
(* order field to the blueprint's index in the array, whatever the order   *)
(* fields were before.                                                     *)
(***************************************************************************)
C8_ReorderMovesAndRenumbers ==
    [][ \A j \in 0..(Len(blueprints) - 1) :
          (handleDrop(j) /\ dataTransfer # <<j>>) =>
             /\ Len(blueprints') = Len(blueprints)
             /\ Unordered(blueprints'[j + 1]) = Unordered(blueprints[dataTransfer[1] + 1])
             /\ LET others == RemoveAt(blueprints, dataTransfer[1] + 1)
                    others2 == RemoveAt(blueprints', j + 1)
                IN  [k \in DOMAIN others2 |-> Unordered(others2[k])]
                    = [k \in DOMAIN others |-> Unordered(others[k])]
             /\ Dense(blueprints')
      ]_vars

\* a list a drop has reordered, after a removal: the identifiers are out of
\* creation order and the order fields are the indices
C8_Witness ==
    /\ lastCall = Returns("handleDrop")
    /\ idCounter > Len(blueprints)
    /\ \E k \in DOMAIN blueprints :
          k + 1 \in DOMAIN blueprints /\ blueprints[k].id[2] > blueprints[k + 1].id[2]
    /\ Dense(blueprints)

(***************************************************************************)
(* C9 - A drop of the dragged blueprint on its own index leaves the        *)
(* blueprint list unchanged, order fields included.                        *)
(***************************************************************************)
C9_DropOnItselfIsNoOp ==
    [][ \A j \in 0..(Len(blueprints) - 1) :
          (handleDrop(j) /\ dataTransfer = <<j>>) => blueprints' = blueprints
      ]_vars

\* a drop has ended and the order fields are not the indices: a
\* reordering drop would have renumbered them
C9_Witness ==
    /\ lastCall = Returns("handleDrop")
    /\ blueprints # <<>>
    /\ ~Dense(blueprints)

(***************************************************************************)
(* C10 - as the specification states it: the order fields of the list are  *)
(* always a permutation of 0..n-1, n the length of the list (addBlueprint  *)
(* assigns n, removeBlueprint compacts, a reorder renumbers).              *)
(***************************************************************************)
C10_OrdersArePermutation == IsPermutation(blueprints)

(***************************************************************************)
(* C10, amended - a reordering drop leaves the order fields 0..n-1 in      *)
(* array order; addBlueprint assigns the length of the list, which keeps a *)
(* permutation of 0..n-1 a permutation; removeBlueprint does not compact:  *)
(* the blueprints it keeps keep their order fields.                        *)
(***************************************************************************)
C10_OrdersByOperation ==
    [][ /\ \A j \in 0..(Len(blueprints) - 1) :
              (handleDrop(j) /\ dataTransfer # <<j>>) => Dense(blueprints')
        /\ \A snippet \in Range(allSnippets) :
              addBlueprint(snippet) =>
                 /\ blueprints'[Len(blueprints')].order = Len(blueprints)
                 /\ IsPermutation(blueprints) => IsPermutation(blueprints')
        /\ \A i \in DOMAIN blueprints :
              removeBlueprint(blueprints[i].id) =>
                 [k \in DOMAIN blueprints' |-> blueprints'[k].order]
                 = [k \in 1..(Len(blueprints) - 1) |->
                       RemoveAt(blueprints, i)[k].order]
      ]_vars

\* after a removal the order fields of a non-empty list are no permutation
\* of 0..n-1
C10_Witness ==
    /\ lastCall = Returns("removeBlueprint")
    /\ blueprints # <<>>
    /\ ~IsPermutation(blueprints)

(***************************************************************************)
(* C11 - as the specification states it: after any sequence of             *)
(* addBlueprint and removeBlueprint the order fields, read in array order, *)
(* never decrease (they may have gaps).                                    *)
(***************************************************************************)
C11_OrdersMonotone ==
    \A k \in DOMAIN blueprints :
       k + 1 \in DOMAIN blueprints => blueprints[k].order <= blueprints[k + 1].order

(***************************************************************************)
(* C12 - removeBlueprint deletes exactly the blueprint with the given      *)
(* identifier: the others stay in their order with their identifier,       *)
(* order field, snippet and override mapping; filtering by an identifier   *)
(* no blueprint has leaves the list unchanged.                             *)
(***************************************************************************)
C12_RemoveDeletesOnlyThatEntry ==
    [][ /\ \A i \in DOMAIN blueprints :
              removeBlueprint(blueprints[i].id) => blueprints' = RemoveAt(blueprints, i)
        /\ \A n \in 1..MaxIds :
              (\A i \in DOMAIN blueprints : blueprints[i].id # BlueprintId(n))
              => FilterOutId(blueprints, BlueprintId(n)) = blueprints
      ]_vars

\* after a removal a blueprint is left that holds an override and whose
\* order field is not its index
C12_Witness ==
    /\ lastCall = Returns("removeBlueprint")
    /\ \E k \in DOMAIN blueprints :
          blueprints[k].customParams # <<>> /\ blueprints[k].order # k - 1

\* obj[key] of a mapping that holds key
Lookup(obj, key) == (CHOOSE entry \in Range(obj) : entry.key = key).value

\* list with the override mapping of the blueprint at index i set to mapping
WithMapping(list, i, mapping) ==
    [k \in DOMAIN list |->
        IF k = i
        THEN [id |-> list[k].id, snippet |-> list[k].snippet, order |-> list[k].order,
              customParams |-> mapping]
        ELSE list[k]]

(***************************************************************************)
(* C13 - updateBlueprintParams replaces the whole override mapping of the  *)
(* blueprint with the given identifier and changes nothing else (its order *)
(* field and snippet, the array order, every other blueprint, also one of  *)
(* the same snippet); the onChange of a parameter input stores the         *)
(* previous mapping with the typed value at the edited parameter, the      *)
(* other parameters of the blueprint keeping their values.                 *)
(***************************************************************************)
C13_OverridesReplacedOthersKept ==
    [][ /\ \A i \in DOMAIN blueprints :
              \A mapping \in { <<>>, << [key |-> <<"b">>, value |-> <<"y">>] >> } :
                 updateBlueprintParams(blueprints, blueprints[i].id, mapping)
                 = WithMapping(blueprints, i, mapping)
        /\ \A i \in DOMAIN blueprints, param \in ParamNames, value \in EditInputs :
              onParamChange(i, param, value) =>
                 /\ blueprints' = WithMapping(blueprints, i, blueprints'[i].customParams)
                 /\ Keys(blueprints'[i].customParams)
                    = Keys(blueprints[i].customParams) \cup {param}
                 /\ Lookup(blueprints'[i].customParams, param) = value
                 /\ \A key \in Keys(blueprints[i].customParams) \ {param} :
                       Lookup(blueprints'[i].customParams, key)
                       = Lookup(blueprints[i].customParams, key)
      ]_vars

\* two blueprints of the same snippet after an edit: one holds a = x and
\* b = y, the other a different mapping
C13_Witness ==
    /\ lastCall = Returns("onParamChange")
    /\ Len(blueprints) = 2
    /\ blueprints[1].snippet = blueprints[2].snippet
    /\ Keys(blueprints[1].customParams) = { <<"a">>, <<"b">> }
    /\ Lookup(blueprints[1].customParams, <<"a">>) = <<"x">>
    /\ Lookup(blueprints[1].customParams, <<"b">>) = <<"y">>
    /\ blueprints[2].customParams # blueprints[1].customParams

(***************************************************************************)
(* C18 - In every reachable state the keys of the override mapping of      *)
(* every blueprint are declared parameters of the blueprint's snippet.     *)
(***************************************************************************)
C18_OverrideKeysDeclared ==
    \A i \in DOMAIN blueprints :
       Keys(blueprints[i].customParams) \subseteq Range(blueprints[i].snippet.parameters)

\* a blueprint with every declared parameter typed in, b before a
C18_Witness ==
    \E i \in DOMAIN blueprints :
       /\ Len(blueprints[i].customParams) = Len(blueprints[i].snippet.parameters)
       /\ blueprints[i].customParams[1].key = <<"b">>
       /\ blueprints[i].customParams[2].key = <<"a">>

\* the number of positions of text that hold ch
Count(text, ch) == Cardinality({i \in DOMAIN text : text[i] = ch})

Warnings ==
    <<"Mismatched curly braces", "Mismatched parentheses",
      "Missing space after function keyword", "Missing space after if keyword">>

\* the condition of each warning
WarningHolds(warning, text) ==
    CASE warning = "Mismatched curly braces" -> Count(text, "{") # Count(text, "}")
      [] warning = "Mismatched parentheses" -> Count(text, "(") # Count(text, ")")
      [] warning = "Missing space after function keyword" ->
            Occurrences(text, <<"f", "u", "n", "c", "t", "i", "o", "n", "(">>) > 0
      [] warning = "Missing space after if keyword" ->
            Occurrences(text, <<"i", "f", "(">>) > 0

(***************************************************************************)
(* C14 - The syntax checker returns exactly the warnings whose condition   *)
(* holds of the text it is given, in the order curly braces, parentheses,  *)
(* function keyword, if keyword: the stored warning list is that           *)
(* subsequence for the stored script (empty exactly when no condition      *)
(* holds), and the script's warnings are those of the snippet's code.      *)
(***************************************************************************)
C14_WarningsAreTheHoldingConditions ==
    Generated =>
       /\ syntaxErrors = SelectSeq(Warnings, LAMBDA w : WarningHolds(w, generatedScript))
       /\ Len(blueprints) = 1 =>
             syntaxErrors = SelectSeq(Warnings,
                               LAMBDA w : WarningHolds(w, blueprints[1].snippet.code))

\* the script of the code "function(if(": three warnings in order, the
\* braces balanced
C14_Witness ==
    /\ Generated
    /\ Len(blueprints) = 1
    /\ blueprints[1].snippet.code
       = <<"f", "u", "n", "c", "t", "i", "o", "n", "(", "i", "f", "(">>
    /\ syntaxErrors = <<"Mismatched parentheses", "Missing space after function keyword",
                        "Missing space after if keyword">>

\* the k-th smallest element of a set of numbers
Nth(S, k) == CHOOSE c \in S : Cardinality({d \in S : d < c}) = k - 1

\* text between its first and its last character that is no white space
Stripped(text) ==
    LET solid == {i \in DOMAIN text : text[i] \notin WhiteSpace}
    IN  IF solid = {} THEN <<>>
        ELSE SubSeq(text, Nth(solid, 1), Nth(solid, Cardinality(solid)))

\* the stripped, non-empty fields of a comma-separated text, in order
Fields(text) ==
    LET commas == {i \in DOMAIN text : text[i] = ","}
        bound(k) == IF k = 0 THEN 0
                    ELSE IF k > Cardinality(commas) THEN Len(text) + 1
                    ELSE Nth(commas, k)
        fields == [k \in 1..(Cardinality(commas) + 1) |->
                      Stripped(SubSeq(text, bound(k - 1) + 1, bound(k) - 1))]
    IN  SelectSeq(fields, LAMBDA field : field # <<>>)

(***************************************************************************)
(* C15 - as the specification states it: addCustomSnippet leaves the       *)
(* catalog unchanged whenever the name or the code of the form is empty    *)
(* after trimming white space; otherwise it appends exactly one snippet    *)
(* marked custom, the snippets before it unchanged.                        *)
(***************************************************************************)
C15_BlankNameOrCodeRejected ==
    [][ addCustomSnippet =>
          IF Stripped(newSnippet.name) = <<>> \/ Stripped(newSnippet.code) = <<>>
          THEN customSnippets' = customSnippets
          ELSE /\ Len(customSnippets') = Len(customSnippets) + 1
               /\ SubSeq(customSnippets', 1, Len(customSnippets)) = customSnippets
               /\ customSnippets'[Len(customSnippets')].isCustom
      ]_vars

(***************************************************************************)
(* C16 - The snippet a successful addCustomSnippet appends declares the    *)
(* parameters of the form's comma-separated list: split on commas, each    *)
(* field trimmed, the empty ones dropped, the order kept ("a, ,b" gives    *)
(* a, b; the empty list gives none).                                       *)
(***************************************************************************)
C16_ParametersSplitTrimmedFiltered ==
    [][ (addCustomSnippet /\ customSnippets' # customSnippets) =>
          LET declared == customSnippets'[Len(customSnippets')].parameters
          IN  /\ declared = Fields(newSnippet.parameters)
              /\ newSnippet.parameters = <<"a", ",", " ", ",", "b">>
                    => declared = << <<"a">>, <<"b">> >>
              /\ newSnippet.parameters = <<>> => declared = <<>>
      ]_vars

\* a snippet just added whose form held "a, ,b"
C16_Witness ==
    /\ lastCall = Returns("addCustomSnippet")
    /\ toast = Toast("Custom Snippet Added", "default")
    /\ customSnippets # <<>>
    /\ customSnippets[Len(customSnippets)].parameters = << <<"a">>, <<"b">> >>
    /\ customSnippets[Len(customSnippets)].isCustom

(***************************************************************************)
(* C17 - as the specification states it: every addGlobalConfigVar appends  *)
(* a new entry.  The derived key is not a key of the table before the      *)
(* call, the table grows by exactly one entry with an empty value, and     *)
(* every entry that was there keeps its key, name, label and value.        *)
(***************************************************************************)
C17_AddVariableAppendsFreshKey ==
    [][ addGlobalConfigVar =>
          /\ Len(globalConfig') = Len(globalConfig) + 1
          /\ globalConfig'[Len(globalConfig')].key \notin Keys(globalConfig)
          /\ globalConfig'[Len(globalConfig')].value = <<>>
          /\ \A i \in DOMAIN globalConfig : globalConfig'[i] = globalConfig[i]
      ]_vars

(***************************************************************************)
(* C19 - as the specification states it: overrides are substituted first,  *)
(* the configuration second.  Stated on a template whose only text between *)
(* percent signs is the placeholder of key, with c a configuration key:    *)
(* (a) key is overridden by a value whose only such text is %c%, c not     *)
(*     overridden: the block holds the value with c's configuration value  *)
(*     in the place of %c%;                                                *)
(* (b) key is c, not overridden, and c's configuration value holds %k% for *)
(*     an override key k: the block holds that configuration value         *)
(*     verbatim;                                                           *)
(* (c) key is c and is overridden by a value without percent signs: the    *)
(*     block holds the override value.                                     *)
(***************************************************************************)
C19_OverridesThenConfiguration ==
    GeneratedOne =>
       LET code == blueprints[1].snippet.code
           overrides == blueprints[1].customParams
       IN  \A key \in Range(blueprints[1].snippet.parameters),
              pre \in Prefixes(code), post \in Suffixes(code) :
              OnlyPlaceholder(code, pre, key, post) =>
                 /\ \A c \in Keys(globalConfig) \ Keys(overrides) :
                       key \in Keys(overrides) =>
                          \A vpre \in Prefixes(Lookup(overrides, key)),
                             vpost \in Suffixes(Lookup(overrides, key)) :
                             OnlyPlaceholder(Lookup(overrides, key), vpre, c, vpost)
                             => RenderedBlock = pre \o vpre \o Lookup(globalConfig, c)
                                                \o vpost \o post
                 /\ ( /\ key \in Keys(globalConfig) \ Keys(overrides)
                      /\ \E k \in Keys(overrides) :
                            Includes(Lookup(globalConfig, key), Placeholder(k)) )
                    => RenderedBlock = pre \o Lookup(globalConfig, key) \o post
                 /\ ( /\ key \in Keys(globalConfig) \cap Keys(overrides)
                      /\ CountChar(Lookup(overrides, key), "%") = 0 )
                    => RenderedBlock = pre \o Lookup(overrides, key) \o post

(***************************************************************************)
(* C20 - as the specification states it: generateScript emits the blocks   *)
(* in the order of the blueprint array, the order the canvas numbers       *)
(* #1, #2, ...: the script stored is the preamble, then the block of       *)
(* blueprints[1], of blueprints[2], and so on.                             *)
(***************************************************************************)
C20_BlocksInArrayOrder ==
    [][ \A now \in Timestamps :
          (generateScript(now) /\ blueprints # <<>>) =>
             generatedScript' =
                Preamble(now, globalConfig)
                \o Join([i \in DOMAIN blueprints |-> BlockText(blueprints[i])], <<"\n">>)
      ]_vars

(***************************************************************************)
(* C21 - In every reachable state the stored warnings are what             *)
(* validateSyntax returns for the stored script, and a step changes the    *)
(* stored script or the stored warnings only if it is a generateScript on  *)
(* a non-empty list: adding, removing, reordering, parameter and           *)
(* configuration edits, the dialog and a rejected generateScript leave     *)
(* both as they are.                                                       *)
(***************************************************************************)
C21_WarningsMatchStoredScript ==
    /\ [](syntaxErrors = validateSyntax(generatedScript))
    /\ [][ \/ UNCHANGED <<generatedScript, syntaxErrors>>
           \/ /\ blueprints # <<>>
              /\ \E now \in StoredTimestamps : generateScript(now)
       ]_vars

\* a script stored with its warning, and the parameter edited since: the
\* list would now render without a warning, the stored pair is as it was
C21_Witness ==
    /\ lastCall = Returns("onParamChange")
    /\ blueprints # <<>>
    /\ blueprints[1].customParams # <<>>
    /\ generatedScript # <<>>
    /\ syntaxErrors = <<"Mismatched parentheses">>
    /\ validateSyntax(processSnippetCode(blueprints[1].snippet.code,
                                         blueprints[1].customParams,
                                         globalConfig).value) = <<>>

====
